---------------------------- MODULE Spec2Model ----------------------------
(***************************************************************************)
(* A model of the anki-cards plugin (src/unnamed/part_001): the card       *)
(* parser, the identity hasher, the card store merger (indexAnkiCards),    *)
(* the review selector (reviewCards / forceReviewCards), the review modal  *)
(* and the SRS scheduler (calculateNextReview).                            *)
(*                                                                         *)
(* Conventions                                                             *)
(*  - A JavaScript string is the sequence of its UTF-16 code units, so     *)
(*    charCodeAt(i) is the (i+1)-th element of the sequence.               *)
(*  - An optional numeric field that is undefined is Undefined (-1).       *)
(*  - easeFactor is counted in thousandths (2.5 is 2500), easyBonus and    *)
(*    intervalModifier in tenths (their sliders step by 0.1).  The model   *)
(*    computes in exact decimal arithmetic; the code computes in IEEE      *)
(*    doubles.                                                             *)
(*  - The clock counts half days: the code's millisecondsPerDay            *)
(*    (24*60*60*1000 ms) is 2 ticks of the model's clock.                  *)
(***************************************************************************)
EXTENDS Integers, Sequences, FiniteSets, TLC

VARIABLES
    vault,          \* the markdown files: basename -> content
    disk,           \* the plugin's persisted blob (loadData / saveData)
    settings,       \* AnkiPlugin.settings
    cardData,       \* AnkiPlugin.cardData
    now,            \* Date.now()
    modal,          \* which modal is open: "none", "review", "nocards"
    cards,          \* CardReviewModal.cards
    currentIndex,   \* CardReviewModal.currentIndex
    showingAnswer,  \* CardReviewModal.showingAnswer
    card,           \* the card object handed to calculateNextReview (SchedSpec)
    inFlight,       \* the saves that await loadData() or saveData() (OverlapSpec)
    hist            \* history: the last operation and what it started from

vars == <<vault, disk, settings, cardData, now, modal, cards, currentIndex,
          showingAnswer, card, inFlight, hist>>

-----------------------------------------------------------------------------
(* Bounds of the model *)

\* the clock stops at MaxNow ticks
MaxNow == 3
\* at most MaxReviews cards are rated in a behaviour of Spec
MaxReviews == 2
\* calculateNextReview is called at most MaxCalls times in SchedSpec
MaxCalls == 3
\* an anki block of ParseSpec holds at most MaxParagraphs paragraphs, each of
\* at most MaxParagraphLines lines
MaxParagraphs == 3
MaxParagraphLines == 3
\* a front or a back handed to generateCardId in HashSpec has at most
\* MaxTextLen characters
MaxTextLen == 2

\* the saves that are awaited at one time (OverlapSpec)
MaxInFlight == 2

-----------------------------------------------------------------------------
(* Values *)

Undefined == -1

\* JavaScript's !x for an optional number: undefined, or 0
Falsy(x) == x = Undefined \/ x = 0

Min(a, b) == IF a <= b THEN a ELSE b

Max(a, b) == IF a >= b THEN a ELSE b

SetMin(S) == CHOOSE x \in S : \A y \in S : x <= y

\* code units
NL == 10
SP == 32
QM == 63
BT == 96
BAR == 124

\* "```anki\n" and "\n```", the two ends of ankiBlockRegex
OpenFence == <<BT, BT, BT, 97, 110, 107, 105, NL>>

CloseFence == <<NL, BT, BT, BT>>

\* "\n\n" and "\n?\n"
BlankLine == <<NL, NL>>

Separator == <<NL, QM, NL>>

-----------------------------------------------------------------------------
(* Strings *)

\* pat occurs in s at (1-based) index i
MatchAt(s, i, pat) ==
    /\ i >= 1
    /\ i + Len(pat) - 1 <= Len(s)
    /\ \A k \in 1..Len(pat) : s[i + k - 1] = pat[k]

\* the first index >= from where pat occurs in s, 0 when there is none
IndexOf(s, pat, from) ==
    LET hits == {i \in from..Len(s) : MatchAt(s, i, pat)}
    IN  IF hits = {} THEN 0 ELSE SetMin(hits)

IsWhiteSpace(c) == c \in {9, 10, 11, 12, 13, SP}

\* String.prototype.trim
trim(s) ==
    LET keep == {i \in 1..Len(s) : ~IsWhiteSpace(s[i])}
    IN  IF keep = {} THEN <<>>
        ELSE SubSeq(s, SetMin(keep), CHOOSE x \in keep : \A y \in keep : x >= y)

-----------------------------------------------------------------------------
(* Card Parser: findAnkiCardsInContent *)

\* ankiBlockRegex.exec in a loop: the matches of /```anki\n([\s\S]*?)\n```/g
\* from index `from` on, each with its capture and its match.index (0-based).
\* The lazy capture ends at the first "\n```" after the opening fence.
RECURSIVE AnkiBlocks(_, _)
AnkiBlocks(content, from) ==
    LET p == IndexOf(content, OpenFence, from)
        q == IF p = 0 THEN 0 ELSE IndexOf(content, CloseFence, p + Len(OpenFence))
    IN  IF p = 0 \/ q = 0 THEN <<>>
        ELSE <<[blockContent |-> SubSeq(content, p + Len(OpenFence), q - 1),
                position |-> p - 1]>>
             \o AnkiBlocks(content, q + Len(CloseFence))

\* /\n\n(?=[\s\S]+?\n\?\n)/ matches at i: a blank-line boundary followed, after
\* at least one character, by a separator line somewhere in the rest of s
CardBoundaryAt(s, i) ==
    /\ MatchAt(s, i, BlankLine)
    /\ \E j \in (i + Len(BlankLine) + 1)..Len(s) : MatchAt(s, j, Separator)

\* /\n\?\n/ matches at i
SeparatorAt(s, i) == MatchAt(s, i, Separator)

\* String.prototype.split(regex) for a regex whose matches have `width` > 0
\* characters: p is where the current part starts, q the scan position
RECURSIVE SplitFrom(_, _, _, _)
SplitFrom(s, p, q, byBoundary) ==
    LET width == IF byBoundary THEN Len(BlankLine) ELSE Len(Separator)
        hit == IF byBoundary THEN CardBoundaryAt(s, q) ELSE SeparatorAt(s, q)
    IN  IF q > Len(s) THEN <<SubSeq(s, p, Len(s))>>
        ELSE IF hit THEN <<SubSeq(s, p, q - 1)>> \o SplitFrom(s, q + width, q + width, byBoundary)
        ELSE SplitFrom(s, p, q + 1, byBoundary)

\* seeded fault: the block is not split, it is one card content
SplitCardsNone(blockContent) == <<blockContent>>

\* blockContent.split(/\n\n(?=[\s\S]+?\n\?\n)/g)
SplitCards(blockContent) == SplitFrom(blockContent, 1, 1, TRUE)

\* cardContent.split(/\n\?\n/)
SplitParts(cardContent) == SplitFrom(cardContent, 1, 1, FALSE)

-----------------------------------------------------------------------------
(* Identity Hasher: generateCardId *)

\* A 32-bit integer is kept as its two 16-bit halves <<hi, lo>> (the unsigned
\* value is hi * 65536 + lo), so that no intermediate leaves the integers of
\* the checker.
Half == 65536

\* one round of the loop: hash = ((hash << 5) - hash) + char; hash = hash & hash
\* which is 31 * hash + char wrapped to 32 bits
HashStep(h, char) ==
    LET lo == 31 * h[2] + char
        hi == 31 * h[1] + (lo \div Half)
    IN  <<hi % Half, lo % Half>>

RECURSIVE HashFrom(_, _, _)
HashFrom(s, i, h) ==
    IF i > Len(s) THEN h ELSE HashFrom(s, i + 1, HashStep(h, s[i]))

\* the signed 32-bit hash is negative
IsNegative(h) == h[1] >= Half \div 2

\* Math.abs of the signed 32-bit value, as halves (abs(-2^31) is 2^31)
Abs32(h) ==
    IF ~IsNegative(h) THEN h
    ELSE IF h[2] = 0 THEN <<Half - h[1], 0>>
    ELSE <<Half - 1 - h[1], Half - h[2]>>

Digit36 == <<48, 49, 50, 51, 52, 53, 54, 55, 56, 57,
             97, 98, 99, 100, 101, 102, 103, 104, 105, 106, 107, 108, 109,
             110, 111, 112, 113, 114, 115, 116, 117, 118, 119, 120, 121, 122>>

\* Number.prototype.toString(36) of a non-negative integer given as halves
RECURSIVE ToString36(_)
ToString36(m) ==
    LET r1 == m[1] % 36
        low == r1 * Half + m[2]
        quot == <<m[1] \div 36, low \div 36>>
        digit == <<Digit36[(low % 36) + 1]>>
    IN  IF quot = <<0, 0>> THEN digit ELSE ToString36(quot) \o digit

\* "card_"
CardPrefix == <<99, 97, 114, 100, 95>>

generateCardId(front, back, sourceFile) ==
    LET contentString == front \o <<BAR>> \o back \o <<BAR>> \o sourceFile
        hash == HashFrom(contentString, 1, <<0, 0>>)
    IN  CardPrefix \o ToString36(Abs32(hash))

\* seeded fault: the position of the block is part of the hashed string
RECURSIVE CardsOfPartsPositional(_, _, _, _)
CardsOfPartsPositional(cardContents, k, fileName, position) ==
    IF k > Len(cardContents) THEN <<>>
    ELSE LET parts == SplitParts(cardContents[k])
             found == IF Len(parts) = 2
                      THEN <<[id |-> generateCardId(trim(parts[1]), trim(parts[2]),
                                                    fileName \o <<BAR, 48 + position>>),
                              front |-> trim(parts[1]),
                              back |-> trim(parts[2]),
                              sourceFile |-> fileName,
                              position |-> position,
                              lastReviewed |-> Undefined,
                              nextReview |-> Undefined,
                              easeFactor |-> Undefined,
                              interval |-> Undefined,
                              reviewCount |-> Undefined]>>
                      ELSE <<>>
         IN  found \o CardsOfPartsPositional(cardContents, k + 1, fileName, position)

\* the cards of one document, in document order
RECURSIVE CardsOfParts(_, _, _, _)
CardsOfParts(cardContents, k, fileName, position) ==
    IF k > Len(cardContents) THEN <<>>
    ELSE LET parts == SplitParts(cardContents[k])
             found == IF Len(parts) = 2
                      THEN <<[id |-> generateCardId(trim(parts[1]), trim(parts[2]), fileName),
                              front |-> trim(parts[1]),
                              back |-> trim(parts[2]),
                              sourceFile |-> fileName,
                              position |-> position,
                              lastReviewed |-> Undefined,
                              nextReview |-> Undefined,
                              easeFactor |-> Undefined,
                              interval |-> Undefined,
                              reviewCount |-> Undefined]>>
                      ELSE <<>>
         IN  found \o CardsOfParts(cardContents, k + 1, fileName, position)

RECURSIVE CardsOfBlocks(_, _, _)
CardsOfBlocks(blocks, b, fileName) ==
    IF b > Len(blocks) THEN <<>>
    ELSE CardsOfParts(SplitCards(blocks[b].blockContent), 1, fileName, blocks[b].position)
         \o CardsOfBlocks(blocks, b + 1, fileName)

findAnkiCardsInContent(content, fileName) ==
    CardsOfBlocks(AnkiBlocks(content, 1), 1, fileName)

-----------------------------------------------------------------------------
(* Settings *)

\* DEFAULT_SETTINGS (the display and interface switches, which no modelled
\* operation reads, are left out)
DEFAULT_SETTINGS ==
    [cardsPerSession |-> 5,
     newCardsPerDay |-> 10,
     reviewsPerDay |-> 50,
     easyBonus |-> 13,
     intervalModifier |-> 10,
     maxInterval |-> 365]

\* the positions the sliders of the settings tab are moved to
CardsPerSessionValues == {1, 5}

NewCardsPerDayValues == {1, 10}

ReviewsPerDayValues == {1, 50}

EasyBonusValues == {10, 13, 20}

IntervalModifierValues == {5, 10, 20}

MaxIntervalValues == {30, 365, 1000}

-----------------------------------------------------------------------------
(* SRS Scheduler: calculateNextReview *)

DefaultEase == 2500

MinEase == 1300

MaxEase == 2500

EaseStep == 150

\* the code's 24 * 60 * 60 * 1000, in ticks of the model's clock
millisecondsPerDay == 2

\* Math.round(n / d) for n >= 0, d > 0: round half up
Round(n, d) == (2 * n + d) \div (2 * d)

\* "Initialize if first review"
InitializeIfAbsent(c) ==
    [c EXCEPT !.easeFactor = IF Falsy(@) THEN DefaultEase ELSE @,
              !.interval = IF Falsy(@) THEN 0 ELSE @,
              !.reviewCount = IF Falsy(@) THEN 0 ELSE @]

\* seeded fault: Hard lowers the ease factor without the floor of 1.3
EaseUpdateNoFloor(easeFactor, difficultyRating, st) ==
    CASE difficultyRating = 1 -> easeFactor - EaseStep
      [] difficultyRating = 3 ->
            Min(MaxEase, easeFactor + (EaseStep * st.easyBonus) \div 10)
      [] OTHER -> easeFactor

\* "Update ease factor based on rating (1=hard, 2=good, 3=easy)"
EaseUpdate(easeFactor, difficultyRating, st) ==
    CASE difficultyRating = 1 -> Max(MinEase, easeFactor - EaseStep)
      [] difficultyRating = 3 ->
            Min(MaxEase, easeFactor + (EaseStep * st.easyBonus) \div 10)
      [] OTHER -> easeFactor

\* seeded fault: the interval is not capped at maxInterval
IntervalUpdateNoCap(interval, easeFactor, difficultyRating, st) ==
    IF interval = 0
    THEN CASE difficultyRating = 1 -> 1
           [] difficultyRating = 2 -> 3
           [] difficultyRating = 3 -> 7
           [] OTHER -> interval
    ELSE Round(interval * easeFactor * st.intervalModifier, 10000)

\* seeded fault: the first interval is scaled by the interval modifier
IntervalUpdateModified(interval, easeFactor, difficultyRating, st) ==
    IF interval = 0
    THEN CASE difficultyRating = 1 -> Round(1 * st.intervalModifier, 10)
           [] difficultyRating = 2 -> Round(3 * st.intervalModifier, 10)
           [] difficultyRating = 3 -> Round(7 * st.intervalModifier, 10)
           [] OTHER -> interval
    ELSE Min(Round(interval * easeFactor * st.intervalModifier, 10000),
             st.maxInterval)

\* seeded fault: Math.floor in place of Math.round
IntervalUpdateFloor(interval, easeFactor, difficultyRating, st) ==
    IF interval = 0
    THEN CASE difficultyRating = 1 -> 1
           [] difficultyRating = 2 -> 3
           [] difficultyRating = 3 -> 7
           [] OTHER -> interval
    ELSE Min((interval * easeFactor * st.intervalModifier) \div 10000,
             st.maxInterval)

\* "Calculate new interval", from the interval before the call and the ease
\* factor after EaseUpdate
IntervalUpdate(interval, easeFactor, difficultyRating, st) ==
    IF interval = 0
    THEN CASE difficultyRating = 1 -> 1
           [] difficultyRating = 2 -> 3
           [] difficultyRating = 3 -> 7
           [] OTHER -> interval
    ELSE Min(Round(interval * easeFactor * st.intervalModifier, 10000),
             st.maxInterval)

\* seeded fault: the interval is added to the clock as it is, not in days
NextReviewDateUnscaled(t, interval) == t + interval

\* "Calculate next review date"
NextReviewDate(t, interval) == t + interval * millisecondsPerDay

\* seeded fault: nextReview is computed before the interval is updated
calculateNextReviewStale(c, difficultyRating, st, t) ==
    LET c0 == InitializeIfAbsent(c)
        ease == EaseUpdate(c0.easeFactor, difficultyRating, st)
        days == IntervalUpdate(c0.interval, ease, difficultyRating, st)
    IN  [c0 EXCEPT !.lastReviewed = t,
                   !.reviewCount = @ + 1,
                   !.easeFactor = ease,
                   !.interval = days,
                   !.nextReview = NextReviewDate(t, c0.interval)]

calculateNextReview(c, difficultyRating, st, t) ==
    LET c0 == InitializeIfAbsent(c)
        ease == EaseUpdate(c0.easeFactor, difficultyRating, st)
        days == IntervalUpdate(c0.interval, ease, difficultyRating, st)
    IN  [c0 EXCEPT !.lastReviewed = t,
                   !.reviewCount = @ + 1,
                   !.easeFactor = ease,
                   !.interval = days,
                   !.nextReview = NextReviewDate(t, days)]

-----------------------------------------------------------------------------
(* The vault *)

\* file basenames "A" and "B", in the order of getMarkdownFiles
FileA == <<65>>

FileB == <<66>>

Files == <<FileA, FileB>>

\* card texts "q\n?\na" and "r\n?\nb"
CardQA == <<113, NL, QM, NL, 97>>

\* a fenced anki block around inner
AnkiBlock(inner) == OpenFence \o inner \o CloseFence

\* documents: no card, one card, the same card twice
DocNone == <<120, NL>>

DocOne == AnkiBlock(CardQA)

DocTwice == AnkiBlock(CardQA \o BlankLine \o CardQA)

\* the one card after a line of text
DocMoved == DocNone \o DocOne

\* what the user edits a file to in Spec: file "A" holds no card or the same
\* card twice, file "B" no card or one card
Documents(f) ==
    IF f = FileA THEN {DocNone, DocTwice} ELSE {DocNone, DocOne}

\* the cards of a file of the vault: findAnkiCardsInContent(content,
\* file.basename), applied once to each document of the model
VaultDocuments == {DocNone, DocOne, DocTwice, DocMoved, <<>>}

CardsInDocuments ==
    [f \in {FileA, FileB} |-> [d \in VaultDocuments |-> findAnkiCardsInContent(d, f)]]

CardsInFile(v, f) ==
    IF v[f] \in VaultDocuments THEN CardsInDocuments[f][v[f]]
    ELSE findAnkiCardsInContent(v[f], f)

-----------------------------------------------------------------------------
(* The persisted blob and the card store *)

\* no card store: data.cards is undefined, this.cardData is null
NoStore == [present |-> FALSE, timestamp |-> 0, totalCards |-> 0, cards |-> <<>>]

\* no settings saved yet: data.settings is undefined
NoSettings == [present |-> FALSE, value |-> DEFAULT_SETTINGS]

\* loadCardData: this.cardData = data?.cards || null
loadCardData(d) == d.cards

\* saveCardData: data.cards = cards; saveData(data)
saveCardData(d, store) == [d EXCEPT !.cards = store]

\* saveSettings: data.settings = this.settings; saveData(data)
saveSettings(d, st) == [d EXCEPT !.settings = [present |-> TRUE, value |-> st]]

\* the cardData object built by saveCardsToJson
CardDataOf(cs, t) ==
    [present |-> TRUE, timestamp |-> t, totalCards |-> Len(cs), cards |-> cs]

-----------------------------------------------------------------------------
(* Card Store Merger: indexAnkiCards *)

\* seeded fault: the first entry with the id is looked up
ExistingIndexFirst(old, id) ==
    LET same == {i \in 1..Len(old) : old[i].id = id}
    IN  IF same = {} THEN 0 ELSE CHOOSE i \in same : \A j \in same : i <= j

\* existingCards[id]: the forEach overwrites, so the last entry with the id
\* stays; 0 when no entry has it
ExistingIndex(old, id) ==
    LET same == {i \in 1..Len(old) : old[i].id = id}
    IN  IF same = {} THEN 0 ELSE CHOOSE i \in same : \A j \in same : i >= j

\* seeded fault: a card with an unseen id is left as the parser made it
MergeCardNoInit(c, old) ==
    LET i == ExistingIndex(old, c.id)
    IN  IF i # 0
        THEN [c EXCEPT !.lastReviewed = old[i].lastReviewed,
                       !.nextReview = old[i].nextReview,
                       !.easeFactor = old[i].easeFactor,
                       !.interval = old[i].interval,
                       !.reviewCount = old[i].reviewCount]
        ELSE c

\* seeded fault: the dates of the reviews are not carried over
MergeCardDateless(c, old) ==
    LET i == ExistingIndex(old, c.id)
    IN  IF i # 0
        THEN [c EXCEPT !.easeFactor = old[i].easeFactor,
                       !.interval = old[i].interval,
                       !.reviewCount = old[i].reviewCount]
        ELSE [c EXCEPT !.easeFactor = DefaultEase,
                       !.interval = 0,
                       !.reviewCount = 0]

\* the forEach over cardsInFile: preserve SRS data, or initialize it
MergeCard(c, old) ==
    LET i == ExistingIndex(old, c.id)
    IN  IF i # 0
        THEN [c EXCEPT !.lastReviewed = old[i].lastReviewed,
                       !.nextReview = old[i].nextReview,
                       !.easeFactor = old[i].easeFactor,
                       !.interval = old[i].interval,
                       !.reviewCount = old[i].reviewCount]
        ELSE [c EXCEPT !.easeFactor = DefaultEase,
                       !.interval = 0,
                       !.reviewCount = 0]

MergeCards(cardsInFile, old) ==
    [k \in 1..Len(cardsInFile) |-> MergeCard(cardsInFile[k], old)]

\* seeded fault: the cards of the previous store whose id no file yields are
\* kept at the end of allCards
RECURSIVE AllCardsFromArchive(_, _, _)
AllCardsFromArchive(v, f, old) ==
    IF f > Len(Files)
    THEN LET found == UNION {{CardsInFile(v, Files[g])[k].id :
                                 k \in 1..Len(CardsInFile(v, Files[g]))} :
                             g \in 1..Len(Files)}
         IN  SelectSeq(old, LAMBDA o : o.id \notin found)
    ELSE MergeCards(CardsInFile(v, Files[f]), old)
         \o AllCardsFromArchive(v, f + 1, old)

\* the loop over the files: allCards after files f..Len(Files)
RECURSIVE AllCardsFrom(_, _, _)
AllCardsFrom(v, f, old) ==
    IF f > Len(Files) THEN <<>>
    ELSE MergeCards(CardsInFile(v, Files[f]), old)
         \o AllCardsFrom(v, f + 1, old)

\* the cards array of a store (none when there is no store)
CardsOf(store) == IF store.present THEN store.cards ELSE <<>>

\* the whole pass: what it leaves on disk
-----------------------------------------------------------------------------
(* Review Selector: reviewCards, getRandomSubset, forceReviewCards *)

\* Array.prototype.slice(0, n)
Take(s, n) == SubSeq(s, 1, Min(n, Len(s)))

\* seeded fault: a card without nextReview is not due
IsDueDated(c, t) == ~Falsy(c.nextReview) /\ c.nextReview <= t

\* !card.nextReview || card.nextReview <= now
IsDue(c, t) == Falsy(c.nextReview) \/ c.nextReview <= t

\* !card.lastReviewed
NeverReviewed(c) == Falsy(c.lastReviewed)

DueCards(cs, t) == SelectSeq(cs, LAMBDA c : IsDue(c, t))

\* seeded fault: the due cards are not cut to reviewsPerDay
ReviewPoolNoCap(cs, t, st) ==
    LET dueCards == DueCards(cs, t)
    IN  IF Len(dueCards) = 0
        THEN Take(SelectSeq(cs, NeverReviewed), st.newCardsPerDay)
        ELSE dueCards

\* dueCards as it stands when reviewCards tests it for the second time
ReviewPool(cs, t, st) ==
    LET dueCards == DueCards(cs, t)
    IN  IF Len(dueCards) = 0
        THEN Take(SelectSeq(cs, NeverReviewed), st.newCardsPerDay)
        ELSE Take(dueCards, st.reviewsPerDay)

\* the orders a sort with the comparator 0.5 - Math.random() can leave
Shuffles(n) == {p \in [1..n -> 1..n] : \A i, j \in 1..n : p[i] = p[j] => i = j}

\* seeded fault: a draw with replacement, the first card of the shuffled
\* order taken size times
getRandomSubsetRepeat(array, size, p) ==
    [i \in 1..Min(size, Len(array)) |-> array[p[1]]]

\* [...array].sort(random).slice(0, size), for the order p the sort left
getRandomSubset(array, size, p) ==
    Take([i \in 1..Len(array) |-> array[p[i]]], size)

\* the comparator of forceReviewCards: negative, zero or positive
CompareForced(a, b) ==
    IF NeverReviewed(a) /\ ~NeverReviewed(b) THEN -1
    ELSE IF ~NeverReviewed(a) /\ NeverReviewed(b) THEN 1
    ELSE IF ~NeverReviewed(a) /\ ~NeverReviewed(b) THEN a.lastReviewed - b.lastReviewed
    ELSE 0

\* Array.prototype.sort with CompareForced (a stable sort): x goes behind the
\* elements that do not compare greater than it
InsertForced(sorted, x) ==
    LET k == Cardinality({i \in 1..Len(sorted) : CompareForced(sorted[i], x) <= 0})
    IN  SubSeq(sorted, 1, k) \o <<x>> \o SubSeq(sorted, k + 1, Len(sorted))

RECURSIVE SortForced(_, _)
SortForced(cs, n) ==
    IF n = 0 THEN <<>> ELSE InsertForced(SortForced(cs, n - 1), cs[n])

\* seeded fault: the cards are taken in store order, without the sort
ForcedCardsUnsorted(cs, st) ==
    Take(cs, Min(st.cardsPerSession, Len(cs)))

\* cardsToReview of forceReviewCards
ForcedCards(cs, st) ==
    Take(SortForced(cs, Len(cs)), Min(st.cardsPerSession, Len(cs)))

-----------------------------------------------------------------------------
(* Write-back: updateCardAfterReview *)

\* findIndex(c => c.id === card.id), 0 for -1
FindIndex(cs, id) ==
    LET same == {i \in 1..Len(cs) : cs[i].id = id}
    IN  IF same = {} THEN 0 ELSE SetMin(same)

\* seeded fault: a card whose id no store entry has is added to the store
UpdatedDiskUpsert(d, c) ==
    LET store == loadCardData(d)
        cardIndex == FindIndex(CardsOf(store), c.id)
    IN  IF ~store.present THEN d
        ELSE IF cardIndex = 0
        THEN saveCardData(d, [store EXCEPT !.cards = Append(store.cards, c)])
        ELSE saveCardData(d, [store EXCEPT !.cards[cardIndex] = c])

\* what updateCardAfterReview leaves on disk, given the rescheduled card
UpdatedDisk(d, c) ==
    LET store == loadCardData(d)
        cardIndex == FindIndex(CardsOf(store), c.id)
    IN  IF ~store.present \/ cardIndex = 0 THEN d
        ELSE saveCardData(d, [store EXCEPT !.cards[cardIndex] = c])

-----------------------------------------------------------------------------
(* State machine *)

Ratings == {1, 2, 3}

\* a card as the parser makes it: the one card of DocOne in file "A"
ParsedCard == findAnkiCardsInContent(DocOne, FileA)[1]

\* the history record: the operation that led to the state, the card object
\* the scheduler started from (SchedSpec) and the rating it was given, the
\* cards the operation worked on (the pool the selector computed, the cards
\* of the store an indexing pass loaded), the number of scheduler calls so far
History(op, c, rating, pool, calls) ==
    [op |-> op, card |-> c, rating |-> rating, pool |-> pool, calls |-> calls]

Quiet(op) == History(op, ParsedCard, 0, <<>>, hist.calls)

\* onload on a fresh install, the vault being v: no data file, default
\* settings, no card data
Loaded(v) ==
    /\ vault = v
    /\ disk = [settings |-> NoSettings, cards |-> NoStore]
    /\ settings = DEFAULT_SETTINGS
    /\ cardData = NoStore
    /\ now = 1
    /\ modal = "none"
    /\ cards = <<>>
    /\ currentIndex = 0
    /\ showingAnswer = FALSE
    /\ inFlight = <<>>
    /\ hist = History("onload", ParsedCard, 0, <<>>, 0)

Init ==
    /\ Loaded([f \in {FileA, FileB} |-> DocNone])
    /\ card = ParsedCard

\* the user edits a document of the vault (an open modal takes the keyboard
\* and covers the workspace)
EditDocument(f, d) ==
    /\ modal = "none"
    /\ vault[f] # d
    /\ vault' = [vault EXCEPT ![f] = d]
    /\ hist' = Quiet("edit")
    /\ UNCHANGED <<disk, settings, cardData, now, modal, cards, currentIndex,
                   showingAnswer, card, inFlight>>

\* time passes
Tick ==
    /\ now < MaxNow
    /\ now' = now + 1
    /\ hist' = Quiet("tick")
    /\ UNCHANGED <<vault, disk, settings, cardData, modal, cards, currentIndex,
                   showingAnswer, card, inFlight>>

\* a slider of the "Review Session" section: onChange sets the setting and
\* awaits saveSettings
ChangeSessionSetting ==
    /\ modal = "none"
    /\ \E st \in {[settings EXCEPT !.cardsPerSession = v] : v \in CardsPerSessionValues}
             \cup {[settings EXCEPT !.newCardsPerDay = v] : v \in NewCardsPerDayValues}
             \cup {[settings EXCEPT !.reviewsPerDay = v] : v \in ReviewsPerDayValues} :
          /\ st # settings
          /\ settings' = st
          /\ disk' = saveSettings(disk, st)
    /\ hist' = Quiet("setting")
    /\ UNCHANGED <<vault, cardData, now, modal, cards, currentIndex,
                   showingAnswer, card, inFlight>>

\* a slider of the "Spaced Repetition (Advanced)" section
ChangeSrsSetting ==
    /\ modal = "none"
    /\ \E st \in {[settings EXCEPT !.easyBonus = v] : v \in EasyBonusValues}
             \cup {[settings EXCEPT !.intervalModifier = v] : v \in IntervalModifierValues}
             \cup {[settings EXCEPT !.maxInterval = v] : v \in MaxIntervalValues} :
          /\ st # settings
          /\ settings' = st
          /\ disk' = saveSettings(disk, st)
    /\ hist' = Quiet("setting")
    /\ UNCHANGED <<vault, cardData, now, modal, cards, currentIndex,
                   showingAnswer, card, inFlight>>

\* indexAnkiCards, the whole pass: load the store, parse and merge every
\* file, save when a card was found
indexAnkiCards ==
    LET loaded == loadCardData(disk)
        allCards == AllCardsFrom(vault, 1, CardsOf(loaded))
    IN  /\ IF Len(allCards) > 0
           THEN /\ disk' = saveCardData(disk, CardDataOf(allCards, now))
                /\ cardData' = CardDataOf(allCards, now)
           ELSE /\ disk' = disk
                /\ cardData' = loaded
        /\ hist' = History("index", ParsedCard, 0, CardsOf(loaded), hist.calls)

\* the "Index all Anki cards in vault" command, or the delayed start-up pass
IndexCommand ==
    /\ indexAnkiCards
    /\ UNCHANGED <<vault, settings, now, modal, cards, currentIndex,
                   showingAnswer, card, inFlight>>

\* the modal is closed: its object is dropped
Closed ==
    /\ modal' = "none"
    /\ cards' = <<>>
    /\ currentIndex' = 0
    /\ showingAnswer' = FALSE

\* the session is opened on cardsToReview (CardReviewModal's constructor)
Opened(cardsToReview) ==
    /\ modal' = "review"
    /\ cards' = cardsToReview
    /\ currentIndex' = 0
    /\ showingAnswer' = FALSE

\* reviewCards: the ribbon icon or the "Review indexed Anki cards" command
reviewCards ==
    /\ modal = "none"
    /\ cardData' = loadCardData(disk)
    /\ LET cs == CardsOf(loadCardData(disk))
           dueCards == ReviewPool(cs, now, settings)
           reviewSize == Min(settings.cardsPerSession, Len(dueCards))
       IN  /\ IF Len(cs) = 0
              THEN UNCHANGED <<modal, cards, currentIndex, showingAnswer>>
              ELSE IF Len(dueCards) = 0
              THEN /\ modal' = "nocards"
                   /\ UNCHANGED <<cards, currentIndex, showingAnswer>>
              ELSE \E p \in Shuffles(Len(dueCards)) :
                       Opened(getRandomSubset(dueCards, reviewSize, p))
           /\ hist' = History("reviewCards", ParsedCard, 0, dueCards, hist.calls)
    /\ UNCHANGED <<vault, disk, settings, now, card, inFlight>>

\* NoCardsModal, "Review Cards Anyway": close, then forceReviewCards
forceReviewCards ==
    /\ modal = "nocards"
    /\ cardData' = loadCardData(disk)
    /\ LET cs == CardsOf(loadCardData(disk))
       IN  /\ IF Len(cs) = 0 THEN Closed ELSE Opened(ForcedCards(cs, settings))
           /\ hist' = Quiet("forceReviewCards")
    /\ UNCHANGED <<vault, disk, settings, now, card, inFlight>>

\* NoCardsModal, "Index New Cards": close, then indexAnkiCards
NoCardsIndex ==
    /\ modal = "nocards"
    /\ Closed
    /\ indexAnkiCards
    /\ UNCHANGED <<vault, settings, now, card, inFlight>>

\* NoCardsModal's "Cancel", or a modal dismissed by the user
CloseModal ==
    /\ modal # "none"
    /\ Closed
    /\ hist' = Quiet("close")
    /\ UNCHANGED <<vault, disk, settings, cardData, now, card, inFlight>>

\* CardReviewModal, "Show Answer"
ShowAnswer ==
    /\ modal = "review"
    /\ ~showingAnswer
    /\ showingAnswer' = TRUE
    /\ hist' = Quiet("showAnswer")
    /\ UNCHANGED <<vault, disk, settings, cardData, now, modal, cards,
                   currentIndex, card, inFlight>>

\* CardReviewModal.rateCard: updateCardAfterReview on the current card, then
\* showNextCard.  The rating buttons exist only while the answer is shown.
rateCardStep(rating) ==
    /\ modal = "review"
    /\ showingAnswer
    /\ hist.calls < MaxReviews
    /\ LET currentCard == cards[currentIndex + 1]
           updated == calculateNextReview(currentCard, rating, settings, now)
       IN  /\ disk' = UpdatedDisk(disk, updated)
           /\ cardData' = loadCardData(disk')
           /\ IF currentIndex < Len(cards) - 1
              THEN /\ cards' = [cards EXCEPT ![currentIndex + 1] = updated]
                   /\ currentIndex' = currentIndex + 1
                   /\ showingAnswer' = FALSE
                   /\ modal' = modal
              ELSE Closed
           /\ hist' = History("rateCard", ParsedCard, rating, <<>>, hist.calls + 1)
    /\ UNCHANGED <<vault, settings, now, inFlight>>

rateCard(rating) ==
    /\ rateCardStep(rating)
    /\ UNCHANGED card

\* the same, the card object that calculateNextReview changed being kept in
\* view (ReindexSpec)
rateCardTraced(rating) ==
    /\ rateCardStep(rating)
    /\ card' = calculateNextReview(cards[currentIndex + 1], rating, settings, now)

Next ==
    \/ \E f \in DOMAIN vault : \E d \in Documents(f) : EditDocument(f, d)
    \/ Tick
    \/ IndexCommand
    \/ reviewCards
    \/ forceReviewCards
    \/ NoCardsIndex
    \/ CloseModal
    \/ ShowAnswer
    \/ \E rating \in Ratings : rateCard(rating)

Spec == Init /\ [][Next]_vars

-----------------------------------------------------------------------------
(* The selector under every session setting: a vault of two cards (one in   *)
(* each file) that is not edited, the sliders of the "Review Session"       *)
(* section moved between the operations.                                    *)

SelectInit ==
    /\ Loaded([f \in {FileA, FileB} |-> DocOne])
    /\ card = ParsedCard

SelectNext ==
    \/ Tick
    \/ ChangeSessionSetting
    \/ IndexCommand
    \/ reviewCards
    \/ forceReviewCards
    \/ NoCardsIndex
    \/ CloseModal
    \/ ShowAnswer
    \/ \E rating \in Ratings : rateCard(rating)

SelectSpec == SelectInit /\ [][SelectNext]_vars

-----------------------------------------------------------------------------
(* The forced review: file "A" holds one card, file "B" is edited between   *)
(* no card and one card, so that an indexing pass can add a never-reviewed  *)
(* card behind a reviewed one while the no-cards choice is open.  The      *)
(* plugin is loaded with the settings of its data file, in which the user   *)
(* has saved a value of cardsPerSession; no card was indexed yet.           *)

ForceInit ==
    \E v \in CardsPerSessionValues :
        LET saved == [DEFAULT_SETTINGS EXCEPT !.cardsPerSession = v]
        IN  /\ vault = [f \in {FileA, FileB} |-> IF f = FileA THEN DocOne ELSE DocNone]
            /\ disk = saveSettings([settings |-> NoSettings, cards |-> NoStore], saved)
            /\ settings = saved
            /\ cardData = NoStore
            /\ now = 1
            /\ modal = "none"
            /\ cards = <<>>
            /\ currentIndex = 0
            /\ showingAnswer = FALSE
            /\ inFlight = <<>>
            /\ hist = History("onload", ParsedCard, 0, <<>>, 0)
            /\ card = ParsedCard

ForceNext ==
    \/ \E d \in Documents(FileB) : EditDocument(FileB, d)
    \/ Tick
    \/ IndexCommand
    \/ reviewCards
    \/ forceReviewCards
    \/ NoCardsIndex
    \/ CloseModal
    \/ ShowAnswer
    \/ \E rating \in Ratings : rateCard(rating)

ForceSpec == ForceInit /\ [][ForceNext]_vars

-----------------------------------------------------------------------------
(* A card that moves: file "B" holds one card, at the start of the document *)
(* or after a line of text that the user adds or removes.                   *)

MoveInit ==
    /\ Loaded([f \in {FileA, FileB} |-> IF f = FileA THEN DocNone ELSE DocOne])
    /\ card = ParsedCard

MoveNext ==
    \/ \E d \in {DocOne, DocMoved} : EditDocument(FileB, d)
    \/ Tick
    \/ IndexCommand
    \/ reviewCards
    \/ forceReviewCards
    \/ NoCardsIndex
    \/ CloseModal
    \/ ShowAnswer
    \/ \E rating \in Ratings : rateCard(rating)

MoveSpec == MoveInit /\ [][MoveNext]_vars

-----------------------------------------------------------------------------
(* A card that goes and comes back: file "A" holds one card, the card of    *)
(* file "B" is added, removed and added again between indexing passes and   *)
(* reviews.  The card that was rescheduled last is kept in view.            *)

ReindexInit ==
    /\ Loaded([f \in {FileA, FileB} |-> IF f = FileA THEN DocOne ELSE DocNone])
    /\ card = ParsedCard

ReindexNext ==
    \/ \E d \in Documents(FileB) : EditDocument(FileB, d)
    \/ Tick
    \/ IndexCommand
    \/ reviewCards
    \/ CloseModal
    \/ ShowAnswer
    \/ \E rating \in Ratings : rateCardTraced(rating)

ReindexSpec == ReindexInit /\ [][ReindexNext]_vars

-----------------------------------------------------------------------------
(* Failing collaborators: a read of a document, a load of the plugin data   *)
(* (loadData) or a write of it (saveData) is rejected during an indexing    *)
(* pass or during the write-back of a review.  hist.op tells how the        *)
(* handler ended: "index: read caught", "index: write caught" and           *)
(* "index: threw", "rateCard: threw".  Both files hold one card, and the   *)
(* operations follow each other within one tick of the clock.               *)

\* seeded fault: a failed read ends the pass, nothing is saved
indexAnkiCardsAborting ==
    LET loaded == loadCardData(disk)
    IN  \/ /\ UNCHANGED <<disk, cardData>>
           /\ hist' = History("index: threw", ParsedCard, 0, <<>>, hist.calls)
        \/ \E f \in DOMAIN vault :
               /\ disk' = disk
               /\ cardData' = loaded
               /\ hist' = History("index: read caught", [ParsedCard EXCEPT !.sourceFile = f],
                                  0, CardsOf(loaded), hist.calls)
        \/ /\ Len(AllCardsFrom(vault, 1, CardsOf(loaded))) > 0
           /\ disk' = disk
           /\ cardData' = loaded
           /\ hist' = History("index: write caught", ParsedCard, 0, CardsOf(loaded), hist.calls)

\* indexAnkiCards with a failing collaborator.  After a failed read, the
\* sourceFile of hist.card is the file that could not be read.
indexAnkiCardsFailing ==
    LET loaded == loadCardData(disk)
    IN  \/ \* loadCardData (l.369) is outside every try: the pass ends there
           /\ UNCHANGED <<disk, cardData>>
           /\ hist' = History("index: threw", ParsedCard, 0, <<>>, hist.calls)
        \/ \* vault.read(file) throws: caught per file, the file yields no card
           \E f \in DOMAIN vault :
               LET allCards == AllCardsFrom([vault EXCEPT ![f] = <<>>], 1, CardsOf(loaded))
               IN  /\ IF Len(allCards) > 0
                      THEN /\ disk' = saveCardData(disk, CardDataOf(allCards, now))
                           /\ cardData' = CardDataOf(allCards, now)
                      ELSE /\ disk' = disk
                           /\ cardData' = loaded
                   /\ hist' = History("index: read caught", [ParsedCard EXCEPT !.sourceFile = f],
                                      0, CardsOf(loaded), hist.calls)
        \/ \* saveData rejects inside saveCardsToJson: caught, logged, notified
           /\ Len(AllCardsFrom(vault, 1, CardsOf(loaded))) > 0
           /\ disk' = disk
           /\ cardData' = loaded
           /\ hist' = History("index: write caught", ParsedCard, 0, CardsOf(loaded), hist.calls)

IndexCommandFailing ==
    /\ indexAnkiCardsFailing
    /\ UNCHANGED <<vault, settings, now, modal, cards, currentIndex,
                   showingAnswer, card, inFlight>>

\* rateCard when updateCardAfterReview is rejected: calculateNextReview has
\* changed the card object of the session, then loadCardData (l.561) or
\* saveCardData (l.570) throws through updateCardAfterReview and rateCard,
\* and showNextCard is not reached
rateCardFailing(rating) ==
    /\ modal = "review"
    /\ showingAnswer
    /\ hist.calls < MaxReviews
    /\ LET currentCard == cards[currentIndex + 1]
           updated == calculateNextReview(currentCard, rating, settings, now)
           store == loadCardData(disk)
           cardIndex == FindIndex(CardsOf(store), updated.id)
       IN  /\ cards' = [cards EXCEPT ![currentIndex + 1] = updated]
           /\ \/ cardData' = cardData
              \/ /\ store.present
                 /\ cardIndex # 0
                 /\ cardData' = [store EXCEPT !.cards[cardIndex] = updated]
           /\ hist' = History("rateCard: threw", ParsedCard, rating, <<>>, hist.calls + 1)
    /\ UNCHANGED <<vault, disk, settings, now, modal, currentIndex, showingAnswer, card, inFlight>>

FailInit ==
    /\ Loaded([f \in {FileA, FileB} |-> DocOne])
    /\ card = ParsedCard

FailNext ==
    \/ IndexCommand
    \/ IndexCommandFailing
    \/ reviewCards
    \/ forceReviewCards
    \/ NoCardsIndex
    \/ CloseModal
    \/ ShowAnswer
    \/ \E rating \in Ratings : rateCard(rating)
    \/ \E rating \in Ratings : rateCardFailing(rating)

FailSpec == FailInit /\ [][FailNext]_vars

-----------------------------------------------------------------------------
(* Overlapping operations: a handler runs up to its next await, and the     *)
(* handlers of other events run before it is resumed.  A save (saveSettings *)
(* or saveCardData) awaits loadData() and then saveData(); between the two  *)
(* it holds the blob it read.  Both files hold one card, the vault is not   *)
(* edited and the clock does not advance.  A session is opened or dismissed *)
(* when no write-back of a review is pending.                               *)

\* a save that was started: whose it is ("review", "index", "settings"), the
\* await it is at ("read": loadData, "write": saveData), the card store it
\* was given, the blob it writes and, for the write-back of a review, the
\* place of the card object in the session (current) and in the store
\* (cardIndex): the store holds the session's card object itself
Save(kind, store, current, cardIndex) ==
    [kind |-> kind, pc |-> "read", store |-> store,
     blob |-> [settings |-> NoSettings, cards |-> NoStore],
     current |-> current, cardIndex |-> cardIndex]

\* the saves in flight after the session's card object at place current was
\* changed to c: the stores that hold the object show the change
Aliased(current, c) ==
    [j \in 1..Len(inFlight) |->
        IF inFlight[j].kind = "review" /\ inFlight[j].current = current
        THEN [inFlight[j] EXCEPT !.store.cards[inFlight[j].cardIndex] = c]
        ELSE inFlight[j]]

Resumed(i) == SubSeq(inFlight, 1, i - 1) \o SubSeq(inFlight, i + 1, Len(inFlight))

ReviewPending == \E i \in 1..Len(inFlight) : inFlight[i].kind = "review"

\* CardReviewModal.showNextCard, the session's cards being cs
showNextCard(cs) ==
    IF currentIndex < Len(cs) - 1
    THEN /\ cards' = cs
         /\ currentIndex' = currentIndex + 1
         /\ showingAnswer' = FALSE
         /\ modal' = modal
    ELSE Closed

\* a click on a rating button: rateCard and updateCardAfterReview up to the
\* await in saveCardData (the card is rescheduled in place, the store is
\* loaded and the entry with the card's id replaced)
rateCardCalled(rating) ==
    /\ modal = "review"
    /\ showingAnswer
    /\ hist.calls < MaxReviews
    /\ Len(inFlight) < MaxInFlight
    /\ LET currentCard == cards[currentIndex + 1]
           updated == calculateNextReview(currentCard, rating, settings, now)
           store == loadCardData(disk)
           cardIndex == FindIndex(CardsOf(store), updated.id)
           written == [store EXCEPT !.cards[cardIndex] = updated]
       IN  IF store.present /\ cardIndex # 0
           THEN /\ cards' = [cards EXCEPT ![currentIndex + 1] = updated]
                /\ cardData' = written
                /\ inFlight' = Append(Aliased(currentIndex + 1, updated),
                                      Save("review", written, currentIndex + 1, cardIndex))
                /\ UNCHANGED <<modal, currentIndex, showingAnswer>>
           ELSE /\ cardData' = store
                /\ inFlight' = Aliased(currentIndex + 1, updated)
                /\ showNextCard([cards EXCEPT ![currentIndex + 1] = updated])
    /\ hist' = History("rateCard: called", ParsedCard, rating, <<>>, hist.calls + 1)
    /\ UNCHANGED <<vault, disk, settings, now, card>>

\* indexAnkiCards up to the await in saveCardData
indexAnkiCardsCalled ==
    /\ Len(inFlight) < MaxInFlight
    /\ LET loaded == loadCardData(disk)
           allCards == AllCardsFrom(vault, 1, CardsOf(loaded))
       IN  /\ cardData' = loaded
           /\ inFlight' = IF Len(allCards) > 0
                          THEN Append(inFlight, Save("index", CardDataOf(allCards, now), 0, 0))
                          ELSE inFlight
           /\ hist' = History("index: called", ParsedCard, 0, CardsOf(loaded), hist.calls)
    /\ UNCHANGED <<vault, disk, settings, now, modal, cards, currentIndex,
                   showingAnswer, card>>

\* the "Cards per session" slider is moved: onChange up to the await in
\* saveSettings
onChangeCalled(value) ==
    /\ modal = "none"
    /\ value # settings.cardsPerSession
    /\ Len(inFlight) < MaxInFlight
    /\ settings' = [settings EXCEPT !.cardsPerSession = value]
    /\ inFlight' = Append(inFlight, Save("settings", NoStore, 0, 0))
    /\ hist' = Quiet("onChange: called")
    /\ UNCHANGED <<vault, disk, cardData, now, modal, cards, currentIndex,
                   showingAnswer, card>>

\* a save is resumed after loadData(): data.settings or data.cards is set
\* and saveData(data) is awaited
loadDataResolved(i) ==
    /\ inFlight[i].pc = "read"
    /\ inFlight' = [inFlight EXCEPT
                        ![i].pc = "write",
                        ![i].blob = IF inFlight[i].kind = "settings"
                                    THEN saveSettings(disk, settings)
                                    ELSE saveCardData(disk, inFlight[i].store)]
    /\ hist' = Quiet("loadData")
    /\ UNCHANGED <<vault, disk, settings, cardData, now, modal, cards,
                   currentIndex, showingAnswer, card>>

\* saveData(data) is done and the handler runs to its end: saveCardData sets
\* this.cardData, rateCard goes on to showNextCard
saveDataResolved(i) ==
    /\ inFlight[i].pc = "write"
    /\ disk' = inFlight[i].blob
    /\ inFlight' = Resumed(i)
    /\ cardData' = IF inFlight[i].kind = "settings" THEN cardData ELSE inFlight[i].store
    /\ IF inFlight[i].kind = "review"
       THEN showNextCard(cards)
       ELSE UNCHANGED <<modal, cards, currentIndex, showingAnswer>>
    /\ hist' = Quiet("saveData: " \o inFlight[i].kind)
    /\ UNCHANGED <<vault, settings, now, card>>

OverlapInit ==
    /\ Loaded([f \in {FileA, FileB} |-> DocOne])
    /\ card = ParsedCard

OverlapNext ==
    \/ indexAnkiCardsCalled
    \/ \E value \in CardsPerSessionValues : onChangeCalled(value)
    \/ ~ReviewPending /\ reviewCards
    \/ ~ReviewPending /\ CloseModal
    \/ ShowAnswer
    \/ \E rating \in Ratings : rateCardCalled(rating)
    \/ \E i \in 1..Len(inFlight) : loadDataResolved(i)
    \/ \E i \in 1..Len(inFlight) : saveDataResolved(i)

OverlapSpec == OverlapInit /\ [][OverlapNext]_vars

-----------------------------------------------------------------------------
(* The parser alone: findAnkiCardsInContent applied to one document, which  *)
(* holds one anki block, at the start of the document or after a line of    *)
(* text.  The block is made of paragraphs separated by one blank line; a    *)
(* paragraph is a run of lines, each of them "q", " a" or "?", or is empty. *)

\* the lines of text, and the lines of a paragraph
TextLines == {<<113>>, <<SP, 97>>}

ParagraphLines == TextLines \cup {<<QM>>}

\* the lines ls[1..n] joined by "\n"
RECURSIVE JoinLines(_, _)
JoinLines(ls, n) ==
    IF n = 0 THEN <<>>
    ELSE IF n = 1 THEN ls[1]
    ELSE JoinLines(ls, n - 1) \o <<NL>> \o ls[n]

Paragraphs ==
    {JoinLines(ls, Len(ls)) :
        ls \in UNION {[1..n -> ParagraphLines] : n \in 0..MaxParagraphLines}}

\* the paragraphs ps[1..n] joined by a blank line
RECURSIVE JoinParagraphs(_, _)
JoinParagraphs(ps, n) ==
    IF n = 0 THEN <<>>
    ELSE IF n = 1 THEN ps[1]
    ELSE JoinParagraphs(ps, n - 1) \o BlankLine \o ps[n]

BlockContents ==
    {JoinParagraphs(ps, Len(ps)) :
        ps \in UNION {[1..n -> Paragraphs] : n \in 1..MaxParagraphs}}

ParseInit ==
    /\ \E prefix \in {<<>>, DocNone} : \E inner \in BlockContents :
           Loaded([f \in {FileA, FileB} |->
                      IF f = FileA THEN prefix \o AnkiBlock(inner) ELSE DocNone])
    /\ card = ParsedCard

\* findAnkiCardsInContent(content, file.basename) on the document of file "A"
ParseDocument ==
    /\ hist.op = "onload"
    /\ cards' = findAnkiCardsInContent(vault[FileA], FileA)
    /\ hist' = Quiet("parse")
    /\ UNCHANGED <<vault, disk, settings, cardData, now, modal, currentIndex,
                   showingAnswer, card, inFlight>>

ParseNext == ParseDocument

ParseSpec == ParseInit /\ [][ParseNext]_vars

-----------------------------------------------------------------------------
(* The hasher alone: generateCardId applied to the front, back and source   *)
(* file of two cards, the texts being strings of "a" and "|".               *)

HashTexts == UNION {[1..n -> {97, BAR}] : n \in 0..MaxTextLen}

\* a card that has no id yet
HashInputs ==
    {[ParsedCard EXCEPT !.id = <<>>, !.front = f, !.back = b, !.sourceFile = file] :
        f \in HashTexts, b \in HashTexts, file \in {FileA, FileB}}

HashInit ==
    /\ vault = [f \in {FileA, FileB} |-> DocNone]
    /\ disk = [settings |-> NoSettings, cards |-> NoStore]
    /\ settings = DEFAULT_SETTINGS
    /\ cardData = NoStore
    /\ now = 1
    /\ modal = "none"
    /\ cards \in [1..2 -> HashInputs]
    /\ currentIndex = 0
    /\ showingAnswer = FALSE
    /\ inFlight = <<>>
    /\ hist = History("onload", ParsedCard, 0, <<>>, 0)
    /\ card = ParsedCard

\* generateCardId(front, back, sourceFile) for each of the two cards
HashCards ==
    /\ hist.op = "onload"
    /\ cards' = [i \in 1..2 |->
                    [cards[i] EXCEPT !.id = generateCardId(cards[i].front, cards[i].back,
                                                           cards[i].sourceFile)]]
    /\ hist' = Quiet("generateCardId")
    /\ UNCHANGED <<vault, disk, settings, cardData, now, modal, currentIndex,
                   showingAnswer, card, inFlight>>

HashNext == HashCards

HashSpec == HashInit /\ [][HashNext]_vars

-----------------------------------------------------------------------------
(* The scheduler alone: calculateNextReview called again and again on one   *)
(* card object, the sliders of the "Spaced Repetition" section moved and    *)
(* time passing between the calls.                                          *)

\* the card objects the calls start from: the card as parsed (no SRS field),
\* as merged (the defaults), and never reviewed with another ease factor
SchedCards ==
    {ParsedCard, MergeCard(ParsedCard, <<>>)}
    \cup {[MergeCard(ParsedCard, <<>>) EXCEPT !.easeFactor = e] : e \in {MinEase, 1450, 2350}}

SchedInit ==
    /\ Loaded([f \in {FileA, FileB} |-> DocNone])
    /\ card \in SchedCards

\* calculateNextReview(card, rating): the card object is changed in place
SchedCall(rating) ==
    /\ hist.calls < MaxCalls
    /\ card' = calculateNextReview(card, rating, settings, now)
    /\ hist' = History("calculateNextReview", card, rating, <<>>, hist.calls + 1)
    /\ UNCHANGED <<vault, disk, settings, cardData, now, modal, cards,
                   currentIndex, showingAnswer, inFlight>>

SchedNext ==
    \/ Tick
    \/ ChangeSrsSetting
    \/ \E rating \in Ratings : SchedCall(rating)

SchedSpec == SchedInit /\ [][SchedNext]_vars

-----------------------------------------------------------------------------
(* The scheduler as time advances: calculateNextReview called on one card    *)
(* object under the settings the plugin was loaded with (an interval        *)
(* modifier and a maximum interval the user has saved), and a clock that    *)
(* keeps advancing up to MaxNow.                                             *)

DueInit ==
    \E m \in IntervalModifierValues : \E x \in MaxIntervalValues :
        LET saved == [DEFAULT_SETTINGS EXCEPT !.intervalModifier = m, !.maxInterval = x]
        IN  /\ vault = [f \in {FileA, FileB} |-> DocNone]
            /\ disk = saveSettings([settings |-> NoSettings, cards |-> NoStore], saved)
            /\ settings = saved
            /\ cardData = NoStore
            /\ now = 1
            /\ modal = "none"
            /\ cards = <<>>
            /\ currentIndex = 0
            /\ showingAnswer = FALSE
            /\ inFlight = <<>>
            /\ hist = History("onload", ParsedCard, 0, <<>>, 0)
            /\ card \in SchedCards

DueNext ==
    \/ Tick
    \/ \E rating \in Ratings : SchedCall(rating)

DueSpec == DueInit /\ [][DueNext]_vars /\ WF_vars(Tick)

-----------------------------------------------------------------------------
(* Properties *)

\* what the claims speak of: the persisted card list, the ids in a list, the
\* scheduling sub-state of a card, the cards a pass over vault v parses
Persisted(d) == CardsOf(d.cards)

Ids(cs) == {cs[i].id : i \in 1..Len(cs)}

Scheduling(c) ==
    <<c.easeFactor, c.interval, c.reviewCount, c.lastReviewed, c.nextReview>>

Parsed(v) ==
    CardsInFile(v, FileA) \o CardsInFile(v, FileB)

\* the state follows a call of calculateNextReview (SchedSpec)
Scheduled == hist.op = "calculateNextReview"

\* the interval the call started from (0 when the field was absent)
PriorInterval == IF hist.card.interval = Undefined THEN 0 ELSE hist.card.interval

\* C1: Ease bounds.  Whatever ratings and easyBonus settings the calls of
\* calculateNextReview were given, the card's easeFactor, once it is set, lies
\* between 1.3 and 2.5, and it is set after the first call.
C1_EaseBounds ==
    /\ hist.calls > 0 => card.easeFactor # Undefined
    /\ card.easeFactor # Undefined => 1300 <= card.easeFactor /\ card.easeFactor <= 2500

\* C1 witness: a Hard rating on a card whose ease factor was less than 0.15
\* above the floor: the floor is what the call leaves
C1_Witness ==
    /\ Scheduled
    /\ hist.rating = 1
    /\ hist.card.easeFactor # Undefined
    /\ hist.card.easeFactor < 1450
    /\ card.easeFactor = 1300

\* C2: Interval bound.  Right after any call of calculateNextReview the card's
\* interval is at most the maxInterval in force, also when maxInterval was
\* lowered since the call before.
C2_IntervalBound == Scheduled => card.interval <= settings.maxInterval

\* C2 witness: the call started from an interval above the present maxInterval
\* (the slider was lowered in between) and left the interval at maxInterval
C2_Witness ==
    /\ Scheduled
    /\ hist.card.interval > settings.maxInterval
    /\ card.interval = settings.maxInterval

\* C5: First-review fixed intervals.  A call that starts from interval 0 sets
\* the interval to 1, 3 or 7 days for Hard, Good or Easy, whatever the ease
\* factor, the interval modifier and the easy bonus are.
C5_FirstReviewIntervals ==
    Scheduled /\ PriorInterval = 0 =>
        card.interval = (CASE hist.rating = 1 -> 1
                           [] hist.rating = 2 -> 3
                           [] hist.rating = 3 -> 7)

\* C5 witness: an Easy first review of a card at the ease floor, under the
\* largest interval modifier and easy bonus
C5_Witness ==
    /\ Scheduled
    /\ PriorInterval = 0
    /\ hist.card.easeFactor = 1300
    /\ settings.intervalModifier = 20
    /\ settings.easyBonus = 20
    /\ hist.rating = 3
    /\ card.interval = 7

\* C6: Subsequent-review interval.  A call that starts from an interval other
\* than 0 sets the interval to min(round(interval x easeFactor x
\* intervalModifier), maxInterval), easeFactor being the one the call leaves
\* and round rounding halves up; interval 3, ease 2.5, modifier 1.0, Good
\* gives 8 with the ease factor unchanged.
C6_SubsequentInterval ==
    Scheduled /\ PriorInterval # 0 =>
        LET product == PriorInterval * card.easeFactor * settings.intervalModifier
            rounded == (product + 5000) \div 10000
        IN  /\ card.interval =
                   (IF rounded <= settings.maxInterval THEN rounded
                    ELSE settings.maxInterval)
            /\ (PriorInterval = 3 /\ hist.card.easeFactor = 2500
                /\ settings.intervalModifier = 10 /\ hist.rating = 2)
               => card.interval = 8 /\ card.easeFactor = 2500

\* C6 witness: the example of the claim
C6_Witness ==
    /\ Scheduled
    /\ hist.card.interval = 3
    /\ hist.card.easeFactor = 2500
    /\ settings.intervalModifier = 10
    /\ hist.rating = 2
    /\ card.interval = 8

\* C7: Scheduler bookkeeping.  Every call sets lastReviewed to the time of the
\* call, adds exactly 1 to reviewCount and sets nextReview to that time plus
\* the new interval in days; after k calls on a new card reviewCount is k.
C7_Bookkeeping ==
    /\ Scheduled =>
          /\ card.lastReviewed = now
          /\ card.reviewCount =
                 (IF Falsy(hist.card.reviewCount) THEN 0 ELSE hist.card.reviewCount) + 1
          /\ card.nextReview = now + card.interval * millisecondsPerDay
    /\ hist.calls > 0 => card.reviewCount = hist.calls

\* C7 witness: the third call on a card, later than the first, with an
\* interval that the first review cannot give
C7_Witness ==
    /\ Scheduled
    /\ hist.calls = 3
    /\ card.reviewCount = 3
    /\ now > 1
    /\ card.interval > 7

\* the step is an indexing pass (the command, the start-up pass or the
\* "Index New Cards" button)
IndexingPass == hist'.op = "index"

\* the step is a review write-back
ReviewUpdate == hist'.op = "rateCard"

\* C3: Merge preservation.  Of an id that is in the previous store and in the
\* new parse, an indexing pass leaves the scheduling sub-state as it was in
\* the previous store, also when several entries share the id: every entry
\* of the new store has the sub-state of an entry of the previous store with
\* its id, and the sub-state of every such entry of the previous store is
\* that of an entry of the new store with its id.
C3_MergePreservation ==
    [][IndexingPass /\ Parsed(vault) # <<>> =>
          /\ \A k \in 1..Len(Persisted(disk')) :
                 Persisted(disk')[k].id \in Ids(Persisted(disk)) =>
                     \E i \in 1..Len(Persisted(disk)) :
                         /\ Persisted(disk)[i].id = Persisted(disk')[k].id
                         /\ Scheduling(Persisted(disk)[i]) = Scheduling(Persisted(disk')[k])
          /\ \A i \in 1..Len(Persisted(disk)) :
                 Persisted(disk)[i].id \in Ids(Parsed(vault)) =>
                     \E k \in 1..Len(Persisted(disk')) :
                         /\ Persisted(disk')[k].id = Persisted(disk)[i].id
                         /\ Scheduling(Persisted(disk')[k]) = Scheduling(Persisted(disk)[i])]_vars

\* C4: New-card defaults.  An indexing pass persists every parsed card whose
\* id is not in the previous store with easeFactor 2.5, interval 0,
\* reviewCount 0 and no lastReviewed and nextReview.
C4_NewCardDefaults ==
    [][IndexingPass =>
          LET parsed == Parsed(vault)
              before == Ids(Persisted(disk))
              after == Persisted(disk')
          IN  \A k \in 1..Len(parsed) :
                  parsed[k].id \notin before =>
                      /\ k <= Len(after)
                      /\ after[k].id = parsed[k].id
                      /\ after[k].easeFactor = 2500
                      /\ after[k].interval = 0
                      /\ after[k].reviewCount = 0
                      /\ after[k].lastReviewed = Undefined
                      /\ after[k].nextReview = Undefined]_vars

\* C4 witness: a pass has added new cards to a store that holds a reviewed
\* card
C4_Witness ==
    /\ hist.op = "index"
    /\ \E k \in 1..Len(Persisted(disk)) :
           Persisted(disk)[k].reviewCount = 0 /\ Persisted(disk)[k].lastReviewed = Undefined
    /\ \E k \in 1..Len(Persisted(disk)) : Persisted(disk)[k].reviewCount >= 1

\* C8: Merge result set.  After an indexing pass the persisted card list is
\* the list of the cards parsed in the pass, and no card of the previous store
\* whose id the pass did not parse is in it.
C8_MergeResultSet ==
    [][IndexingPass =>
          /\ Len(Persisted(disk')) = Len(Parsed(vault))
          /\ \A k \in 1..Len(Parsed(vault)) :
                 /\ Persisted(disk')[k].id = Parsed(vault)[k].id
                 /\ Persisted(disk')[k].front = Parsed(vault)[k].front
                 /\ Persisted(disk')[k].back = Parsed(vault)[k].back
                 /\ Persisted(disk')[k].sourceFile = Parsed(vault)[k].sourceFile
                 /\ Persisted(disk')[k].position = Parsed(vault)[k].position
          /\ \A i \in 1..Len(Persisted(disk)) :
                 Persisted(disk)[i].id \notin Ids(Parsed(vault)) =>
                     Persisted(disk)[i].id \notin Ids(Persisted(disk'))]_vars

\* C9 as claimed: no operation removes a persisted card from the store.
C9_NoAutomaticDeletion ==
    [][Ids(Persisted(disk)) \subseteq Ids(Persisted(disk'))]_vars

\* C9 as amended: a review update neither adds nor removes a store entry, an
\* indexing pass that parses no card leaves the persisted store as it was, and
\* an indexing pass that parses a card leaves exactly the parsed ids in the
\* store, so that a persisted card whose block was removed is deleted.
C9_DeletionByReindex ==
    [][/\ ReviewUpdate =>
            /\ Len(Persisted(disk')) = Len(Persisted(disk))
            /\ \A i \in 1..Len(Persisted(disk)) :
                   Persisted(disk')[i].id = Persisted(disk)[i].id
       /\ IndexingPass =>
            LET parsed == Parsed(vault)
            IN  IF parsed = <<>> THEN disk' = disk
                ELSE Ids(Persisted(disk')) = Ids(parsed)]_vars

\* C9 witness: a card was rated, and after a later indexing pass the store
\* holds only the never-reviewed card of file "B": the pass has deleted the
\* rated card, whose block is no longer in the vault
C9_Witness ==
    /\ hist.op = "index"
    /\ hist.calls >= 1
    /\ vault[FileA] = DocNone
    /\ Len(Persisted(disk)) = 1
    /\ Persisted(disk)[1].sourceFile = FileB
    /\ Persisted(disk)[1].reviewCount = 0

\* the first n elements of cs among those at the indices kept, in the order
\* of cs
FirstOf(cs, kept, n) ==
    LET rank(i) == Cardinality({j \in kept : j <= i})
        chosen == {i \in kept : rank(i) <= n}
    IN  [r \in 1..Cardinality(chosen) |-> cs[CHOOSE i \in chosen : rank(i) = r]]

\* C10: Selector pool.  For a non-empty store, the pool of reviewCards is the
\* first reviewsPerDay cards, in store order, among those with nextReview
\* unset or not after now; when there is none, the first newCardsPerDay cards
\* with lastReviewed unset.  With an empty pool no session is opened and the
\* no-cards choice is presented; otherwise a session is opened.
C10_SelectorPool ==
    hist.op = "reviewCards" /\ Len(Persisted(disk)) > 0 =>
        LET store == Persisted(disk)
            due == {i \in 1..Len(store) :
                       store[i].nextReview = Undefined \/ store[i].nextReview <= now}
            fresh == {i \in 1..Len(store) : store[i].lastReviewed = Undefined}
        IN  /\ due # {} => hist.pool = FirstOf(store, due, settings.reviewsPerDay)
            /\ due = {} => hist.pool = FirstOf(store, fresh, settings.newCardsPerDay)
            /\ hist.pool = <<>> => modal = "nocards" /\ cards = <<>>
            /\ hist.pool # <<>> => modal = "review" /\ cards # <<>>

\* C10 witness: two cards are due, one of them reviewed before, and
\* reviewsPerDay 1 leaves the first of them in the pool
C10_Witness ==
    /\ hist.op = "reviewCards"
    /\ settings.reviewsPerDay = 1
    /\ Len(Persisted(disk)) = 2
    /\ \A i \in 1..2 : Persisted(disk)[i].nextReview = Undefined
                        \/ Persisted(disk)[i].nextReview <= now
    /\ \E i \in 1..2 : Persisted(disk)[i].nextReview # Undefined
    /\ hist.pool = <<Persisted(disk)[1]>>
    /\ modal = "review"

\* C11: Selector subset.  Whatever order the random comparator leaves, the
\* session opened by reviewCards holds min(cardsPerSession, pool length)
\* cards, each of them an element of the pool and no element of the pool
\* twice, and the call leaves the persisted store, and with it the order of
\* the cards the pool was drawn from, as it was.
C11_SelectorSubset ==
    [][hist'.op = "reviewCards" /\ hist'.pool # <<>> =>
          /\ Len(cards') = Min(settings.cardsPerSession, Len(hist'.pool))
          /\ \E from \in [1..Len(cards') -> 1..Len(hist'.pool)] :
                 /\ \A i \in 1..Len(cards') : cards'[i] = hist'.pool[from[i]]
                 /\ \A i, j \in 1..Len(cards') : from[i] = from[j] => i = j
          /\ disk' = disk
          /\ Persisted(disk) = CardsOf(cardData')]_vars

\* C11 witness: of a pool of two cards, a session of one card was opened on
\* the second card of the pool
C11_Witness ==
    /\ hist.op = "reviewCards"
    /\ Len(hist.pool) = 2
    /\ settings.cardsPerSession = 1
    /\ modal = "review"
    /\ cards = <<hist.pool[2]>>

\* C12: Daily new-card cap.  The never-reviewed cards presented in the
\* sessions of one day are at most newCardsPerDay; in particular the session
\* that reviewCards has just opened holds at most newCardsPerDay cards that
\* were never reviewed.
C12_DailyNewCardCap ==
    hist.op = "reviewCards" /\ modal = "review" =>
        Cardinality({i \in 1..Len(cards) : cards[i].lastReviewed = Undefined})
            <= settings.newCardsPerDay

\* card x of the store goes before card y in a forced review: x was never
\* reviewed and y was, or both were and x was reviewed earlier
ForcedBefore(x, y) ==
    \/ x.lastReviewed = Undefined /\ y.lastReviewed # Undefined
    \/ /\ x.lastReviewed # Undefined
       /\ y.lastReviewed # Undefined
       /\ x.lastReviewed < y.lastReviewed

\* C13: Forced review ordering.  forceReviewCards opens a session on the
\* first min(cardsPerSession, n) cards of all n stored cards, ordered with
\* the never-reviewed cards before every reviewed card and the reviewed cards
\* in ascending lastReviewed, cards that compare equal staying in store order.
C13_ForcedOrdering ==
    hist.op = "forceReviewCards" /\ Persisted(disk) # <<>> =>
        LET store == Persisted(disk)
            n == Len(store)
        IN  /\ modal = "review"
            /\ Len(cards) = Min(settings.cardsPerSession, n)
            /\ \E order \in [1..n -> 1..n] :
                   /\ \A i, j \in 1..n : order[i] = order[j] => i = j
                   /\ \A i, j \in 1..n : i < j =>
                          \/ ForcedBefore(store[order[i]], store[order[j]])
                          \/ /\ ~ForcedBefore(store[order[j]], store[order[i]])
                             /\ order[i] < order[j]
                   /\ \A i \in 1..Len(cards) : cards[i] = store[order[i]]

\* C13 witness: the store holds a reviewed card before a never-reviewed one,
\* and the forced session of one card is opened on the never-reviewed card
C13_Witness ==
    /\ hist.op = "forceReviewCards"
    /\ Len(Persisted(disk)) = 2
    /\ Persisted(disk)[1].lastReviewed # Undefined
    /\ Persisted(disk)[2].lastReviewed = Undefined
    /\ settings.cardsPerSession = 1
    /\ cards = <<Persisted(disk)[2]>>

\* the state follows a call of findAnkiCardsInContent (ParseSpec)
ParsedDocument == hist.op = "parse"

\* C14: Parser acceptance.  A sub-block becomes a card only if it splits into
\* exactly two parts that are both non-empty after trimming, so every card
\* the parser produces has a non-empty front and a non-empty back.
C14_ParserAcceptance ==
    ParsedDocument =>
        \A i \in 1..Len(cards) : cards[i].front # <<>> /\ cards[i].back # <<>>

\* the well-formed cards of one front line and one back line, and their text
WellFormedCards == [front : TextLines, back : TextLines]

CardText(w) == w.front \o Separator \o w.back

\* C15: Multi-card blocks.  A block of k >= 1 well-formed cards separated by
\* one blank line yields exactly k cards, in block order, each with its own
\* trimmed front and back (and the id of these), all with the offset of the
\* block in the document as position.
C15_MultiCardBlocks ==
    ParsedDocument =>
        \A prefix \in {<<>>, DocNone} : \A k \in 1..MaxParagraphs :
            \A ws \in [1..k -> WellFormedCards] :
                vault[FileA] = prefix \o AnkiBlock(JoinParagraphs([i \in 1..k |-> CardText(ws[i])], k))
                => /\ Len(cards) = k
                   /\ \A i \in 1..k :
                          /\ cards[i].front = trim(ws[i].front)
                          /\ cards[i].back = trim(ws[i].back)
                          /\ cards[i].id = generateCardId(trim(ws[i].front), trim(ws[i].back), FileA)
                          /\ cards[i].sourceFile = FileA
                          /\ cards[i].position = Len(prefix)

\* C15 witness: a block of three cards behind a line of text was parsed into
\* three cards, the first two with different fronts
C15_Witness ==
    /\ ParsedDocument
    /\ Len(cards) = MaxParagraphs
    /\ cards[1].position = Len(DocNone)
    /\ cards[1].front = <<113>>
    /\ cards[2].front = <<97>>
    /\ \A i \in 1..Len(cards) : Len(cards[i].front) = 1 /\ Len(cards[i].back) = 1

\* C16: Blank lines inside an answer.  A card whose answer holds a blank line
\* is produced with its complete answer as back, when it is the last card of
\* the block and when a further card follows it after a blank line.
C16_BlankLineInAnswer ==
    ParsedDocument =>
        \A w \in WellFormedCards : \A more \in TextLines :
            LET first == CardText(w) \o BlankLine \o more
            IN  /\ vault[FileA] = AnkiBlock(first) =>
                       /\ Len(cards) = 1
                       /\ cards[1].front = trim(w.front)
                       /\ cards[1].back = trim(w.back \o BlankLine \o more)
                /\ \A next \in WellFormedCards :
                       vault[FileA] = AnkiBlock(first \o BlankLine \o CardText(next)) =>
                           /\ Len(cards) = 2
                           /\ cards[1].front = trim(w.front)
                           /\ cards[1].back = trim(w.back \o BlankLine \o more)
                           /\ cards[2].front = trim(next.front)
                           /\ cards[2].back = trim(next.back)

\* C17: Id is independent of position.  A card of the loaded store whose
\* front, back and file name are parsed again, at whatever offset, has the
\* same id after the indexing pass and keeps its easeFactor, interval,
\* reviewCount, lastReviewed and nextReview, and its stored position is the
\* offset at which it was parsed.
C17_IdIndependentOfPosition ==
    hist.op = "index" /\ Parsed(vault) # <<>> =>
        /\ Len(Persisted(disk)) = Len(Parsed(vault))
        /\ \A k \in 1..Len(Parsed(vault)) : \A i \in 1..Len(hist.pool) :
               /\ hist.pool[i].front = Parsed(vault)[k].front
               /\ hist.pool[i].back = Parsed(vault)[k].back
               /\ hist.pool[i].sourceFile = Parsed(vault)[k].sourceFile
               => /\ Persisted(disk)[k].id = hist.pool[i].id
                  /\ Scheduling(Persisted(disk)[k]) = Scheduling(hist.pool[i])
                  /\ Persisted(disk)[k].position = Parsed(vault)[k].position

\* C17 witness: the pass loaded a reviewed card stored at offset 0 and has
\* stored it at the offset behind the added line
C17_Witness ==
    /\ hist.op = "index"
    /\ Len(hist.pool) = 1
    /\ hist.pool[1].position = 0
    /\ hist.pool[1].reviewCount >= 1
    /\ Len(Persisted(disk)) = 1
    /\ Persisted(disk)[1].position = Len(DocNone)
    /\ Persisted(disk)[1].reviewCount = hist.pool[1].reviewCount

\* C18: Any content change changes the id.  Two cards that differ in front,
\* back or source file are given different ids by generateCardId, also when
\* their texts hold the delimiter "|".
C18_ContentChangeChangesId ==
    hist.op = "generateCardId" =>
        (<<cards[1].front, cards[1].back, cards[1].sourceFile>>
             # <<cards[2].front, cards[2].back, cards[2].sourceFile>>
         => cards[1].id # cards[2].id)

\* C19: Id uniqueness.  In the store an indexing pass has persisted, no two
\* cards have the same id.
C19_IdUniqueness ==
    hist.op = "index" /\ Parsed(vault) # <<>> =>
        \A i, j \in 1..Len(Persisted(disk)) :
            Persisted(disk)[i].id = Persisted(disk)[j].id => i = j

\* C20: Failure absorption.  No failure of a document read, of a store load
\* or of a store write makes indexAnkiCards or the write-back of a review end
\* with an exception, and after a rating the session has left the rated
\* card: it shows the question of the next card or it is closed.
C20_FailureAbsorption ==
    /\ hist.op \notin {"index: threw", "rateCard: threw"}
    /\ hist.op \in {"rateCard", "rateCard: threw"} => ~showingAnswer

\* C21: Partial-failure tolerance.  An indexing pass in which the read of a
\* document fails runs to completion, and the persisted store holds every
\* card of every document that was read, with the merged state the card has
\* after a pass in which no read fails.
C21_PartialFailureTolerance ==
    hist.op = "index: read caught" =>
        LET unfailing == AllCardsFrom(vault, 1, hist.pool)
        IN  \A k \in 1..Len(unfailing) :
                unfailing[k].sourceFile # hist.card.sourceFile =>
                    \E i \in 1..Len(Persisted(disk)) : Persisted(disk)[i] = unfailing[k]

\* C21 witness: the read of file "A" failed in a pass that had loaded two
\* cards, and the store holds the card of file "B" with its review
C21_Witness ==
    /\ hist.op = "index: read caught"
    /\ hist.card.sourceFile = FileA
    /\ Len(hist.pool) = 2
    /\ Len(Persisted(disk)) = 1
    /\ Persisted(disk)[1].sourceFile = FileB
    /\ Persisted(disk)[1].reviewCount >= 1

\* C22: Lost update, the operations run one after another.  No operation of
\* a run in which each operation ends before the next one starts takes a
\* completed review from the persisted store: of an id that stays in the
\* store, every entry's count of reviews is still that of an entry of the
\* store after the operation.  (The overlapping operations are those of
\* OverlapSpec.)
C22_SequentialNoLostUpdate ==
    [][LET before == Persisted(disk)
           after == Persisted(disk')
       IN  \A i \in 1..Len(before) :
               before[i].id \in Ids(after) =>
                   \E k \in 1..Len(after) :
                       /\ after[k].id = before[i].id
                       /\ after[k].reviewCount >= before[i].reviewCount]_vars

\* C24: Session progression.  Whatever the order of the clicks and of the
\* write-backs, a session presents its cards in list order without skipping
\* and reschedules each card once: every card before the current one was
\* rated once, no card after it was rated, the current card was rated at
\* most once; and the session is closed by a write-back only when every
\* card was rated once.  (A session of OverlapSpec starts with cards that
\* were never reviewed: the clock does not advance, so no reviewed card is
\* due.)
C24_SessionProgression ==
    /\ [](modal = "review" =>
             \A i \in 1..Len(cards) :
                 /\ i <= currentIndex => cards[i].reviewCount = 1
                 /\ i = currentIndex + 1 => cards[i].reviewCount \in {0, 1}
                 /\ i > currentIndex + 1 => cards[i].reviewCount = 0)
    /\ [][modal = "review" /\ modal' = "none" /\ ReviewPending =>
              \A i \in 1..Len(cards) : cards[i].reviewCount = 1]_vars

\* C26: Settings and cards in one blob.  When every save has completed, the
\* blob holds the settings the user chose and the card store the last
\* saveCardData was given (this.cardData), also when a saveSettings and a
\* saveCardData overlapped.
C26_NoClobbering ==
    inFlight = <<>> =>
        /\ settings # DEFAULT_SETTINGS =>
               disk.settings = [present |-> TRUE, value |-> settings]
        /\ loadCardData(disk) = cardData

\* C23: Write-back by id.  A review write-back puts the rescheduled card in
\* the place of a store entry with the card's id and leaves the number, the
\* order and the content of the other entries as they were; when no entry
\* has the id, the persisted blob is left as it was.
C23_WriteBackById ==
    [][ReviewUpdate =>
          LET rescheduled == calculateNextReview(cards[currentIndex + 1], hist'.rating,
                                                 settings, now)
              before == Persisted(disk)
              after == Persisted(disk')
          IN  IF rescheduled.id \in Ids(before)
              THEN /\ Len(after) = Len(before)
                   /\ \E i \in 1..Len(before) :
                          /\ before[i].id = rescheduled.id
                          /\ after[i] = rescheduled
                          /\ \A j \in 1..Len(before) : j # i => after[j] = before[j]
                   /\ disk'.settings = disk.settings
              ELSE disk' = disk]_vars

\* C23 witness: the card of file "B", third in a store of three, was rated
\* and the two entries before it were never reviewed
C23_Witness ==
    /\ hist.op = "rateCard"
    /\ Len(Persisted(disk)) = 3
    /\ Persisted(disk)[3].sourceFile = FileB
    /\ Persisted(disk)[3].reviewCount = 1
    /\ Persisted(disk)[1].reviewCount = 0
    /\ Persisted(disk)[2].reviewCount = 0

\* C25: Card becomes due again.  After every review the card's nextReview is
\* its lastReviewed plus interval days, with an interval of at least one day
\* and at most maxInterval days, so the card is due maxInterval days after
\* its last review at the latest; and as time advances, a reviewed card whose
\* nextReview the clock can reach is due again, unless it is reviewed again
\* before.
C25_DueAgain ==
    /\ [](card.lastReviewed # Undefined =>
             /\ card.nextReview - card.lastReviewed = card.interval * millisecondsPerDay
             /\ 1 <= card.interval
             /\ card.interval <= settings.maxInterval
             /\ IsDue(card, card.lastReviewed + settings.maxInterval * millisecondsPerDay))
    /\ \A n \in 1..MaxCalls : \A d \in 1..MaxNow :
           (hist.calls = n /\ card.nextReview = d) ~> (IsDue(card, now) \/ hist.calls # n)

\* C25 witness: the card was reviewed twice, the second time with the
\* smallest product of interval, ease factor and interval modifier, and the
\* clock has reached its nextReview
C25_Witness ==
    /\ card.reviewCount = 2
    /\ card.interval = 1
    /\ settings.intervalModifier = 5
    /\ card.easeFactor = MinEase
    /\ now > card.lastReviewed
    /\ now = card.nextReview
    /\ IsDue(card, now)

\* the scheduling sub-state of card c is that of a never-reviewed card or
\* that of a reviewed card
Consistent(c) ==
    LET reviewed == c.reviewCount >= 1
    IN  /\ (c.lastReviewed # Undefined) <=> reviewed
        /\ (c.nextReview # Undefined) <=> reviewed
        /\ (c.interval >= 1) <=> reviewed

\* the review takes the first-review branch of calculateNextReview
FirstReview(c) == Falsy(c.interval)

C29_DuplicateIds ==
    [][LET before == Persisted(disk)
           after == Persisted(disk')
           same(id) == {i \in 1..Len(before) : before[i].id = id}
           first(id) == CHOOSE i \in same(id) : \A j \in same(id) : i <= j
           last(id) == CHOOSE i \in same(id) : \A j \in same(id) : j <= i
       IN  /\ ReviewUpdate =>
                  LET rescheduled == calculateNextReview(cards[currentIndex + 1],
                                                         hist'.rating, settings, now)
                  IN  rescheduled.id \in Ids(before) =>
                          /\ Len(after) = Len(before)
                          /\ \A j \in 1..Len(before) :
                                 after[j] = IF j = first(rescheduled.id)
                                            THEN rescheduled ELSE before[j]
           /\ IndexingPass /\ Parsed(vault) # <<>> =>
                  \A k \in 1..Len(after) :
                      after[k].id \in Ids(before) =>
                          Scheduling(after[k]) = Scheduling(before[last(after[k].id)])]_vars

\* C29 witness: the pass loaded two entries with one id, the first reviewed
\* and the last never reviewed, and left both copies never reviewed
C29_Witness ==
    /\ hist.op = "index"
    /\ Len(hist.pool) >= 2
    /\ hist.pool[1].id = hist.pool[2].id
    /\ hist.pool[1].reviewCount = 1
    /\ hist.pool[2].reviewCount = 0
    /\ Len(Persisted(disk)) >= 2
    /\ Persisted(disk)[1].id = hist.pool[1].id
    /\ Persisted(disk)[2].id = hist.pool[1].id
    /\ Persisted(disk)[1].reviewCount = 0
    /\ Persisted(disk)[2].reviewCount = 0

=============================================================================
